---- MODULE Spec2Model ----
(***************************************************************************)
(* Model of the itinerary pipeline: generateItinerary                      *)
(* (src/services/geminiService.ts) and the budget reconciliation of        *)
(* ItineraryDisplay (src/components/ItineraryDisplay.tsx).                 *)
(*                                                                         *)
(* JavaScript values are tagged records: [t |-> "undefined"],              *)
(* [t |-> "number", value |-> n], [t |-> "string", chars |-> <<...>>],     *)
(* [t |-> "NaN"], [t |-> "Infinity"], [t |-> "ratio", num, den] (a finite  *)
(* non-integer number).  A text is the sequence of its characters.         *)
(***************************************************************************)
EXTENDS Integers, Sequences, FiniteSets, TLC

VARIABLES
    costString,           \* parseCostToNumber: the argument of the call
    costResult,           \* parseCostToNumber: what the call produced
    apiKey,               \* process.env.API_KEY
    pc,                   \* generateItinerary: position of the async function
    request,              \* generateItinerary: the generateContent request in flight
    backendCalls,         \* number of generateContent calls attempted
    response,             \* what the backend answered (resolved value or rejection)
    outcome,              \* generateItinerary: the settled promise (result or error)
    preferences,          \* generateItinerary: the argument of the call
    consoleLog,           \* console.warn / console.error lines written
    itineraryData,        \* ItineraryDisplay prop
    userBudget,           \* ItineraryDisplay prop
    activityActualCosts,  \* ItineraryDisplay state (the override store)
    effectPending,        \* the [itineraryData] effect is scheduled, not yet run
    view                  \* what the last render of ItineraryDisplay computed

costVars == <<costString, costResult>>
genVars == <<apiKey, preferences, pc, request, backendCalls, response, outcome, consoleLog>>
displayVars == <<itineraryData, userBudget, activityActualCosts, effectPending, view>>
vars == <<costVars, genVars, displayVars>>

-----------------------------------------------------------------------------
(* JavaScript values *)

Undefined == [t |-> "undefined"]
Null == [t |-> "null"]
NaN == [t |-> "NaN"]
Infinity == [t |-> "Infinity"]
NegInfinity == [t |-> "-Infinity"]
Num(n) == [t |-> "number", value |-> n]
Str(s) == [t |-> "string", chars |-> s]
TypeError == [t |-> "TypeError"]
Idle == [t |-> "idle"]

\* ToBoolean: undefined, null, NaN, 0 and "" are falsy.
Truthy(v) ==
    CASE v.t = "undefined" -> FALSE
      [] v.t = "null" -> FALSE
      [] v.t = "NaN" -> FALSE
      [] v.t = "number" -> v.value # 0
      [] v.t = "string" -> v.chars # <<>>
      [] OTHER -> TRUE

\* a || b
Or(a, b) == IF Truthy(a) THEN a ELSE b

\* a && b
And(a, b) == IF Truthy(a) THEN b ELSE a

Range(s) == {s[i] : i \in 1..Len(s)}

RECURSIVE SeqsUpTo(_, _)
\* every sequence over S of length at most n
SeqsUpTo(S, n) ==
    IF n = 0 THEN {<<>>}
    ELSE LET shorter == SeqsUpTo(S, n - 1)
         IN  shorter \cup {Append(s, x) : s \in {q \in shorter : Len(q) = n - 1}, x \in S}

-----------------------------------------------------------------------------
(* Characters and parseFloat *)

DigitChars == <<"0", "1", "2", "3", "4", "5", "6", "7", "8", "9">>
IsDigit(c) == c \in Range(DigitChars)
DigitVal(c) == (CHOOSE i \in 1..Len(DigitChars) : DigitChars[i] = c) - 1
IsSpace(c) == c \in {" ", "\n", "\t"}

RECURSIVE DigitsValue(_)
\* the decimal value of a sequence of digit characters (0 for none)
DigitsValue(ds) ==
    IF ds = <<>> THEN 0
    ELSE 10 * DigitsValue(SubSeq(ds, 1, Len(ds) - 1)) + DigitVal(ds[Len(ds)])

RECURSIVE Pow10(_)
Pow10(k) == IF k = 0 THEN 1 ELSE 10 * Pow10(k - 1)

RECURSIVE DigitPrefixLen(_)
\* length of the longest prefix made of digits
DigitPrefixLen(s) ==
    IF s = <<>> \/ ~IsDigit(s[1]) THEN 0 ELSE 1 + DigitPrefixLen(Tail(s))

RECURSIVE TrimStart(_)
TrimStart(s) == IF s # <<>> /\ IsSpace(s[1]) THEN TrimStart(Tail(s)) ELSE s

RECURSIVE TrimEnd(_)
TrimEnd(s) ==
    IF s # <<>> /\ IsSpace(s[Len(s)]) THEN TrimEnd(SubSeq(s, 1, Len(s) - 1)) ELSE s

Trim(s) == TrimEnd(TrimStart(s))

\* parseFloat on a text: leading white space, an optional sign, the longest
\* decimal literal that follows; NaN when there is none.  The texts of this
\* model carry no exponent and no "Infinity" literal.
ParseFloat(s) ==
    LET t == TrimStart(s)
        signed == t # <<>> /\ t[1] \in {"-", "+"}
        sign == IF signed /\ t[1] = "-" THEN -1 ELSE 1
        body == IF signed THEN Tail(t) ELSE t
        n == DigitPrefixLen(body)
        intDigits == SubSeq(body, 1, n)
        rest == SubSeq(body, n + 1, Len(body))
        hasDot == rest # <<>> /\ rest[1] = "."
        m == IF hasDot THEN DigitPrefixLen(Tail(rest)) ELSE 0
        fracDigits == IF hasDot THEN SubSeq(Tail(rest), 1, m) ELSE <<>>
    IN  IF n = 0 /\ m = 0 THEN NaN
        ELSE IF DigitsValue(fracDigits) = 0 THEN Num(sign * DigitsValue(intDigits))
        ELSE [t |-> "ratio",
              num |-> sign * (DigitsValue(intDigits) * Pow10(m) + DigitsValue(fracDigits)),
              den |-> Pow10(m)]

IsNaN(v) == v.t \in {"NaN", "undefined"}

-----------------------------------------------------------------------------
(* parseCostToNumber, ItineraryDisplay.tsx:11-18 *)

MaxCostLen == 4

\* the characters cost texts are drawn from: a letter, a blank, both
\* separators, the minus sign and three digits
CostAlphabet == {"R", " ", ".", ",", "-", "0", "1", "5"}

\* costString.replace(/[^0-9,-]+/g, '')
StripNonNumeric(s) == SelectSeq(s, LAMBDA c : IsDigit(c) \/ c \in {",", "-"})

\* .replace(/\./g, '')
RemoveDots(s) == SelectSeq(s, LAMBDA c : c # ".")

\* the commas are left in
RemoveCommasMut(s) == s

\* .replace(/,/g, '')
RemoveCommas(s) == SelectSeq(s, LAMBDA c : c # ",")

\* parseCostToNumber(costString); a receiver that is not a string has no
\* replace method and the call throws a TypeError
parseCostToNumber(v) ==
    IF v.t # "string" THEN TypeError
    ELSE LET numericString == RemoveCommas(RemoveDots(StripNonNumeric(v.chars)))
             parsed == ParseFloat(numericString)
         IN  IF IsNaN(parsed) THEN Num(0) ELSE parsed

\* estimatedCost values of an itinerary the pipeline accepts: JSON.parse
\* output is not validated, so the field can be any text, absent, or a number
CostInputs ==
    {Str(s) : s \in SeqsUpTo(CostAlphabet, MaxCostLen)}
        \cup {Undefined, Null, Num(5)}

\* the display texts the specification gives as examples
CostExamples ==
    { Str(<<"I", "D", "R", " ", "1", ".", "2", "3", "4", ".", "5", "6", "7">>),
      Str(<<"R", "p", " ", "5", "0", ",", "0", "0", "0">>),
      Str(<<"F", "r", "e", "e">>) }

costIdle == costString = Idle /\ costResult = Idle
genIdle ==
    /\ apiKey = Idle /\ preferences = Idle /\ pc = "idle" /\ request = Idle
    /\ backendCalls = 0
    /\ response = Idle /\ outcome = Idle /\ consoleLog = <<>>
displayIdle ==
    /\ itineraryData = Idle /\ userBudget = 0 /\ activityActualCosts = <<>>
    /\ effectPending = FALSE /\ view = Idle


InitCost ==
    /\ genIdle /\ displayIdle
    /\ costString \in CostInputs \cup CostExamples
    /\ costResult = Idle

\* one call parseCostToNumber(activity.estimatedCost), as made at line 62
ParseCost ==
    /\ costResult = Idle
    /\ costResult' = parseCostToNumber(costString)
    /\ UNCHANGED <<costString, genVars, displayVars>>

NextCost == ParseCost

SpecCost == InitCost /\ [][NextCost]_vars

-----------------------------------------------------------------------------
(* ItineraryDisplay, ItineraryDisplay.tsx:21-95 *)

MaxDays == 2
MaxActivities == 2

\* activities the backend may generate: estimatedCost is display text,
\* actualCost is optional (types.ts ItineraryActivity)
ActivityPool ==
    { [estimatedCost |-> Str(<<"R", "p", " ", "5", ".", "0", "0", "0">>),
       actualCost |-> Undefined],
      [estimatedCost |-> Str(<<"1", ",", "2", "0", "0">>),
       actualCost |-> Num(7)] }

RECURSIVE CountActivities(_)
CountActivities(days) ==
    IF days = <<>> THEN 0 ELSE Len(days[1].activities) + CountActivities(Tail(days))

\* every day with at most MaxActivities activities
DayPool == {[activities |-> acts] : acts \in SeqsUpTo(ActivityPool, MaxActivities)}

\* GeneratedItinerary values: at most MaxDays days and at most MaxActivities
\* activities over all days
Itineraries ==
    {[itinerary |-> days] :
        days \in {ds \in SeqsUpTo(DayPool, MaxDays) : CountActivities(ds) <= MaxActivities}}

\* the budget the form passes down: its initial value (UserInputForm rejects
\* budget <= 0)
UserBudgets == {1000000}

\* the texts typed into an actual-cost input
EditInputs == {<<>>, <<"0">>, <<"5">>, <<"x">>}

\* the keys day-${dayIndex}-activity-${activityIndex} of an itinerary,
\* as pairs <<dayIndex, activityIndex>> counted from 0
KeysOf(itin) ==
    UNION { {<<d - 1, a - 1>> : a \in 1..Len(itin.itinerary[d].activities)} :
                d \in 1..Len(itin.itinerary) }

ActivityAt(itin, key) == itin.itinerary[key[1] + 1].activities[key[2] + 1]

\* activityActualCosts[key]: undefined for a key the record does not hold
Lookup(costs, key) == IF key \in DOMAIN costs THEN costs[key] ELSE Undefined

\* useState initializer, lines 23-31
InitialCosts(itin) == [key \in KeysOf(itin) |-> ActivityAt(itin, key).actualCost]

\* line 39: activityActualCosts[key] || activity.actualCost
MergedCost(existing, default) == Or(existing, default)

\* the effect body, lines 35-42
MergeCosts(itin, costs) ==
    [key \in KeysOf(itin) |->
        MergedCost(Lookup(costs, key), ActivityAt(itin, key).actualCost)]

\* handleActualCostChange, lines 46-56
ChangedCosts(costs, dayIndex, activityIndex, value) ==
    LET cost == IF value = <<>> THEN Undefined ELSE ParseFloat(value)
        key == <<dayIndex, activityIndex>>
    IN  [k \in DOMAIN costs \cup {key} |->
            IF k = key THEN (IF IsNaN(cost) THEN Undefined ELSE cost) ELSE costs[k]]

\* a + b on the integer-valued numbers of the model
Add(a, b) == Num(a.value + b.value)

\* a / b of JavaScript numbers given as integers: a zero divisor yields NaN
\* or an infinity, never an exception
Divide(a, b) ==
    IF b = 0 THEN (IF a = 0 THEN NaN ELSE IF a > 0 THEN Infinity ELSE NegInfinity)
    ELSE IF a % b = 0 THEN Num(a \div b)
    ELSE [t |-> "ratio", num |-> a, den |-> b]

\* parseCostToNumber(activity.estimatedCost) for each activity of the pool
EstimatedCostOf == [act \in ActivityPool |-> parseCostToNumber(act.estimatedCost)]

\* the day sum is not carried along: each activity replaces it
SumActivitiesMut(acts) ==
    IF acts = <<>> THEN Num(0) ELSE EstimatedCostOf[acts[Len(acts)]]

RECURSIVE SumActivities(_)
\* day.activities.reduce(...), lines 61-63
SumActivities(acts) ==
    IF acts = <<>> THEN Num(0)
    ELSE Add(SumActivities(SubSeq(acts, 1, Len(acts) - 1)), EstimatedCostOf[acts[Len(acts)]])

RECURSIVE SumDays(_)
\* totalEstimatedCost, lines 59-65
SumDays(days) ==
    IF days = <<>> THEN Num(0)
    ELSE Add(SumDays(SubSeq(days, 1, Len(days) - 1)), SumActivities(days[Len(days)].activities))

totalEstimatedCost(itin) == SumDays(itin.itinerary)

RECURSIVE SumCosts(_, _)
SumCosts(costs, keys) ==
    IF keys = {} THEN Num(0)
    ELSE LET k == CHOOSE x \in keys : TRUE
         IN  Add(SumCosts(costs, keys \ {k}), Or(costs[k], Num(0)))

\* equal values are summed once
totalActualCostMut(costs) ==
    LET values == {costs[k] : k \in DOMAIN costs}
    IN  SumCosts([v \in values |-> v], values)

\* totalActualCost, lines 67-72: Object.values(...).reduce(sum + (cost || 0))
totalActualCost(costs) == SumCosts(costs, DOMAIN costs)

\* one render of the component: lines 59-77 run first, the empty-itinerary
\* guard of lines 89-95 only chooses what is returned
Render(itin, costs, budget) ==
    LET durationDays == Len(itin.itinerary)
        actual == totalActualCost(costs)
        remainingBudget == budget - actual.value
    IN  [ shown |-> IF durationDays = 0 THEN "noItinerary" ELSE "itinerary",
          itinerary |-> itin,
          actualCosts |-> costs,
          totalEstimatedCost |-> totalEstimatedCost(itin),
          totalActualCost |-> actual,
          durationDays |-> durationDays,
          averageDailyBudget |-> Divide(budget, durationDays),
          remainingBudget |-> Num(remainingBudget),
          remainingAverageDailyBudget |-> Divide(remainingBudget, durationDays) ]

\* the component mounted on a first itinerary: the initializer, then the
\* effect of the mount, then the render of the state the effect set
InitDisplay ==
    /\ costIdle /\ genIdle
    /\ itineraryData \in Itineraries
    /\ userBudget \in UserBudgets
    /\ activityActualCosts = MergeCosts(itineraryData, InitialCosts(itineraryData))
    /\ effectPending = FALSE
    /\ view = Render(itineraryData, activityActualCosts, userBudget)

\* the parent passes a regenerated itinerary (the budget prop stays the one
\* of the mount): the component renders it with the state it has, and the
\* [itineraryData] effect is scheduled
Regenerate ==
    /\ ~effectPending
    /\ \E itin \in Itineraries :
        /\ itineraryData' = itin
        /\ view' = Render(itin, activityActualCosts, userBudget)
    /\ effectPending' = TRUE
    /\ UNCHANGED <<userBudget, activityActualCosts, costVars, genVars>>

\* the effect of lines 34-43 runs and the state it sets is rendered
RunMergeEffect ==
    /\ effectPending
    /\ activityActualCosts' = MergeCosts(itineraryData, activityActualCosts)
    /\ effectPending' = FALSE
    /\ view' = Render(itineraryData, activityActualCosts', userBudget)
    /\ UNCHANGED <<itineraryData, userBudget, costVars, genVars>>

\* the user edits one actual-cost input of the rendered itinerary
HandleActualCostChange ==
    /\ ~effectPending
    /\ view.shown = "itinerary"
    /\ \E key \in KeysOf(itineraryData), value \in EditInputs :
        activityActualCosts' = ChangedCosts(activityActualCosts, key[1], key[2], value)
    /\ view' = Render(itineraryData, activityActualCosts', userBudget)
    /\ UNCHANGED <<itineraryData, userBudget, effectPending, costVars, genVars>>

NextDisplay == Regenerate \/ RunMergeEffect \/ HandleActualCostChange

SpecDisplay == InitDisplay /\ [][NextDisplay]_vars

-----------------------------------------------------------------------------
(* generateItinerary, geminiService.ts:10-135 *)

MaxTextLen == 3
MaxChunks == 3

MsgNoKey == "API_KEY is not set. Please provide your Gemini API key."
MsgNoResponse == "No response received from the model."
MsgMalformed ==
    "Received malformed JSON string from the model. Please try again or refine your prompt."
MsgNotFound == "Requested entity was not found."
MsgAuth ==
    "API Key might be invalid or has insufficient permissions. Please check your API key and billing details."
MsgFailedPrefix == "Failed to generate itinerary: "
MsgUnknown == "Unknown API error"
\* the warning of line 103 (its quotation marks left out)
MsgNoFence == "No json markdown block found. Attempting to parse raw response as JSON."

\* new Error(message): a message is a text given as the sequence of its pieces
Error(pieces) == [name |-> "Error", message |-> Str(pieces)]

\* message.includes(piece)
Includes(message, piece) == message.t = "string" /\ piece \in Range(message.chars)

\* process.env.API_KEY: unset, empty, or a key
ApiKeys == {Undefined, Str(<<>>), Str(<<"k">>)}

Coordinates == {Undefined, Num(0), Num(35)}

\* TravelPreferences, as far as generateItinerary branches on it
PreferencesPool == [latitude : Coordinates, longitude : Coordinates]

\* the credential is not checked
CredentialMissingMut(key) == FALSE

\* line 13: !process.env.API_KEY
CredentialMissing(key) == ~Truthy(key)

\* line 60: latitude && longitude
HasLocation(p) == Truthy(And(p.latitude, p.longitude))

\* lines 25-71: the prompt (its fixed instruction text, then the location
\* clause when there is one), the tools and the tool configuration
BuildRequest(p) ==
    [ model |-> "gemini-2.5-flash",
      contents |->
        <<[piece |-> "instructions"]>> \o
            (IF HasLocation(p)
                THEN <<[piece |-> "location", latitude |-> p.latitude,
                        longitude |-> p.longitude]>>
                ELSE <<>>),
      tools |-> <<"googleSearch">> \o (IF HasLocation(p) THEN <<"googleMaps">> ELSE <<>>),
      toolConfig |->
        IF HasLocation(p)
            THEN [retrievalConfig |->
                    [latLng |-> [latitude |-> p.latitude, longitude |-> p.longitude]]]
            ELSE [empty |-> TRUE] ]

\* A response text is a sequence of tokens: the two fence markers (three
\* backticks, written [fence] here, with and without the word json), white
\* space, prose, and whole JSON texts.
FenceJson == "[fence]json"
Fence == "[fence]"
JsonEmptyItinerary == "{\"itinerary\":[]}"
JsonOneDay == "{\"itinerary\":[{\"day\":1,\"date\":\"d\",\"activities\":[]}]}"
JsonBad == "{bad json"
JsonNull == "null"
JsonEmptyObject == "{}"
JsonNumber == "5"
JsonStringItinerary == "{\"itinerary\":\"x\"}"

TextTokens ==
    {FenceJson, Fence, "\n", "Enjoy!", JsonEmptyItinerary, JsonOneDay, JsonBad, JsonNull,
     JsonEmptyObject, JsonNumber, JsonStringItinerary}

Array(items) == [t |-> "array", items |-> items]
Object(itin) == [t |-> "object", itinerary |-> itin]

\* the value JSON.parse gives for each JSON text of the vocabulary
JsonValue(token) ==
    CASE token = JsonEmptyItinerary -> Object(Array(<<>>))
      [] token = JsonOneDay -> Object(Array(<<[activities |-> <<>>]>>))
      [] token = JsonNull -> Null
      [] token = JsonEmptyObject -> Object(Undefined)
      [] token = JsonNumber -> Num(5)
      [] token = JsonStringItinerary -> Object(Str(<<"x">>))

JsonTexts ==
    {JsonEmptyItinerary, JsonOneDay, JsonNull, JsonEmptyObject, JsonNumber,
     JsonStringItinerary}

\* JSON.parse(jsonStr): one JSON text, white space allowed around it;
\* anything else is a SyntaxError
JSONParse(jsonStr) ==
    LET t == Trim(jsonStr)
    IN  IF Len(t) = 1 /\ t[1] \in JsonTexts
            THEN [ok |-> TRUE, value |-> JsonValue(t[1])]
            ELSE [ok |-> FALSE, value |-> Undefined]

IsFence(token) == token \in {Fence, FenceJson}

\* rawResponseText.match(...), line 94: the first json fence marker, then
\* the shortest text up to the next three backticks (those of a later json
\* fence marker close the block as well), white space around the capture
\* left out
FenceMatch(raw) ==
    LET opens == {i \in 1..Len(raw) : raw[i] = FenceJson}
    IN  IF opens = {} THEN [found |-> FALSE, inner |-> <<>>]
        ELSE LET i == CHOOSE x \in opens : \A y \in opens : x <= y
                 closes == {j \in (i + 1)..Len(raw) : IsFence(raw[j])}
             IN  IF closes = {} THEN [found |-> FALSE, inner |-> <<>>]
                 ELSE LET j == CHOOSE x \in closes : \A y \in closes : x <= y
                      IN  [found |-> TRUE, inner |-> Trim(SubSeq(raw, i + 1, j - 1))]

\* lines 97-104: the JSON candidate and whether the fallback was taken
ExtractJson(rawResponseText) ==
    LET jsonMatch == FenceMatch(rawResponseText)
    IN  IF jsonMatch.found /\ jsonMatch.inner # <<>>
            THEN [jsonStr |-> Trim(jsonMatch.inner), fallback |-> FALSE]
            ELSE [jsonStr |-> rawResponseText, fallback |-> TRUE]

\* chunk.web?.uri / chunk.maps?.uri
UriOf(ref) == IF ref.t = "undefined" THEN Undefined ELSE ref.uri

\* lines 118-123: what one chunk pushes
ChunkUris(chunk) ==
    (IF Truthy(UriOf(chunk.web)) THEN <<UriOf(chunk.web)>> ELSE <<>>) \o
        (IF Truthy(UriOf(chunk.maps)) THEN <<UriOf(chunk.maps)>> ELSE <<>>)

RECURSIVE PushAll(_)
\* groundingChunks.forEach(...), lines 116-125
PushAll(chunks) ==
    IF chunks = <<>> THEN <<>>
    ELSE PushAll(SubSeq(chunks, 1, Len(chunks) - 1)) \o ChunkUris(chunks[Len(chunks)])

\* response.candidates?.[0]?.groundingMetadata?.groundingChunks
GroundingChunks(resp) ==
    IF resp.candidates.t = "undefined" \/ resp.candidates.items = <<>> THEN Undefined
    ELSE LET metadata == resp.candidates.items[1].groundingMetadata
         IN  IF metadata.t = "undefined" THEN Undefined ELSE metadata.groundingChunks

\* the list is returned as collected
DedupMut(urls) == urls

RECURSIVE Dedup(_)
\* [...new Set(sourceUrls)]: a Set iterates in insertion order
Dedup(urls) ==
    IF urls = <<>> THEN <<>>
    ELSE LET front == Dedup(SubSeq(urls, 1, Len(urls) - 1))
             last == urls[Len(urls)]
         IN  IF last \in Range(front) THEN front ELSE Append(front, last)

CollectSourceUrls(resp) ==
    LET chunks == GroundingChunks(resp)
    IN  Dedup(IF chunks.t = "undefined" THEN <<>> ELSE PushAll(chunks.items))

Warn(text) == [level |-> "warn", text |-> text]
LogError(text, detail) == [level |-> "error", text |-> text, detail |-> detail]

\* lines 88-127, the body of the try block once the call has resolved:
\* a thrown error or the returned value, and the console lines written
TryBody(resp) ==
    LET rawResponseText ==
            IF resp.text.t = "undefined" THEN Undefined ELSE Str(Trim(resp.text.chars))
    IN  IF ~Truthy(rawResponseText)
            THEN [t |-> "throw", error |-> Error(<<MsgNoResponse>>), log |-> <<>>]
        ELSE
            LET ex == ExtractJson(rawResponseText.chars)
                warned ==
                    IF ex.fallback
                        THEN <<Warn(MsgNoFence)>>
                        ELSE <<>>
                parsed == JSONParse(ex.jsonStr)
            IN  IF ~parsed.ok
                    THEN [t |-> "throw", error |-> Error(<<MsgMalformed>>),
                          log |-> Append(warned,
                                    LogError("Failed to parse JSON response:", Str(ex.jsonStr)))]
                    ELSE [t |-> "return",
                          value |-> [itineraryData |-> parsed.value,
                                     sourceUrls |-> CollectSourceUrls(resp)],
                          log |-> warned]

\* lines 128-134, the catch block: what is thrown to the caller
Rethrown(error) ==
    IF Truthy(error.message) /\ Includes(error.message, MsgNotFound)
        THEN Error(<<MsgAuth>>)
        ELSE Error(<<MsgFailedPrefix>> \o Or(error.message, Str(<<MsgUnknown>>)).chars)

Rejected(error) == [t |-> "rejected", error |-> error]
Fulfilled(value) == [t |-> "fulfilled", value |-> value]

\* errors the generateContent call may reject with
BackendErrors ==
    { [name |-> "Error", message |-> m] :
        m \in {Undefined, Str(<<>>), Str(<<"fetch failed">>), Str(<<MsgNotFound>>),
               Str(<<"404 ", MsgNotFound>>), Str(<<MsgNoResponse>>), Str(<<MsgMalformed>>)} }

ResponseTexts == {Undefined} \cup {Str(s) : s \in SeqsUpTo(TextTokens, MaxTextLen)}

Web(u) == [t |-> "ref", uri |-> u]
UriA == Str(<<"https://a">>)
UriB == Str(<<"https://b">>)
UriC == Str(<<"https://c">>)
Chunk(web, maps) == [web |-> web, maps |-> maps]

\* grounding chunks: each may carry a web reference, a maps reference, both
\* or neither; a reference may lack its uri
ChunkPool ==
    { Chunk(w, m) : w \in {Undefined, Web(UriA), Web(UriB), Web(Str(<<>>))},
                    m \in {Undefined, Web(UriA), Web(UriC), Web(Undefined)} }

Candidates(metadata) == Array(<<[groundingMetadata |-> metadata]>>)
WithChunks(chunks) == Candidates([t |-> "metadata", groundingChunks |-> Array(chunks)])

\* the levels at which grounding metadata can be absent
AbsentGroundings ==
    { Undefined, Array(<<>>), Candidates(Undefined),
      Candidates([t |-> "metadata", groundingChunks |-> Undefined]) }

\* the grounding metadata the pipeline runs are given
SampleGroundings ==
    AbsentGroundings \cup
        { WithChunks(<<>>),
          WithChunks(<<Chunk(Web(UriA), Undefined), Chunk(Undefined, Web(UriB)),
                       Chunk(Web(UriA), Undefined)>>) }

AllGroundings == AbsentGroundings \cup {WithChunks(cs) : cs \in SeqsUpTo(ChunkPool, MaxChunks)}

Resolved(text, candidates) == [t |-> "resolved", text |-> text, candidates |-> candidates]

InitGen ==
    /\ costIdle /\ displayIdle
    /\ apiKey \in ApiKeys
    /\ preferences \in PreferencesPool
    /\ pc = "start"
    /\ request = Idle
    /\ backendCalls = 0
    /\ response = Idle
    /\ outcome = Idle
    /\ consoleLog = <<>>

\* lines 13-15: no credential, the call throws before anything else
RejectMissingKey ==
    /\ pc = "start"
    /\ CredentialMissing(apiKey)
    /\ outcome' = Rejected(Error(<<MsgNoKey>>))
    /\ pc' = "done"
    /\ preferences' = Idle
    /\ UNCHANGED <<apiKey, request, backendCalls, response, consoleLog, costVars, displayVars>>

\* lines 18-71: the client is created and the request is built
BuildPrompt ==
    /\ pc = "start"
    /\ ~CredentialMissing(apiKey)
    /\ request' = BuildRequest(preferences)
    /\ pc' = "call"
    /\ UNCHANGED <<apiKey, preferences, backendCalls, response, outcome, consoleLog,
                   costVars, displayVars>>

\* lines 74-86: generateContent is called and the function awaits it; the
\* preferences are not read again
CallBackend ==
    /\ pc = "call"
    /\ backendCalls' = backendCalls + 1
    /\ pc' = "awaiting"
    /\ preferences' = Idle
    /\ UNCHANGED <<apiKey, request, response, outcome, consoleLog, costVars, displayVars>>

\* the call rejects: the catch block of lines 128-134
Reject(error) ==
    /\ pc = "awaiting"
    /\ response' = Rejected(error)
    /\ consoleLog' = <<LogError("Error generating itinerary from Gemini API:", error)>>
    /\ outcome' = Rejected(Rethrown(error))
    /\ pc' = "done"
    /\ request' = Idle
    /\ UNCHANGED <<apiKey, preferences, backendCalls, costVars, displayVars>>

\* the call resolves: lines 88-127, and the catch block for what they throw
Resolve(resp) ==
    /\ pc = "awaiting"
    /\ response' = resp
    /\ LET body == TryBody(resp)
       IN  IF body.t = "throw"
               THEN /\ consoleLog' =
                        Append(body.log,
                               LogError("Error generating itinerary from Gemini API:",
                                        body.error))
                    /\ outcome' = Rejected(Rethrown(body.error))
               ELSE /\ consoleLog' = body.log
                    /\ outcome' = Fulfilled(body.value)
    /\ pc' = "done"
    /\ request' = Idle
    /\ UNCHANGED <<apiKey, preferences, backendCalls, costVars, displayVars>>

BackendRejects ==
    /\ pc = "awaiting"
    /\ \E error \in BackendErrors : Reject(error)

BackendResolves ==
    /\ pc = "awaiting"
    /\ \E text \in ResponseTexts, candidates \in SampleGroundings :
        Resolve(Resolved(text, candidates))

NextGen ==
    RejectMissingKey \/ BuildPrompt \/ CallBackend \/ BackendRejects \/ BackendResolves

SpecGen == InitGen /\ [][NextGen]_vars

\* generateItinerary awaiting a call made with a configured key and no
\* coordinates; the answer carries a fenced itinerary and any grounding
InitGround ==
    /\ costIdle /\ displayIdle
    /\ apiKey = Str(<<"k">>)
    /\ preferences = Idle
    /\ pc = "awaiting"
    /\ request = BuildRequest([latitude |-> Undefined, longitude |-> Undefined])
    /\ backendCalls = 1
    /\ response = Idle
    /\ outcome = Idle
    /\ consoleLog = <<>>

GroundedAnswer ==
    /\ pc = "awaiting"
    /\ \E candidates \in AllGroundings :
        Resolve(Resolved(Str(<<FenceJson, "\n", JsonEmptyItinerary, "\n", Fence>>), candidates))

NextGround == GroundedAnswer

SpecGround == InitGround /\ [][NextGround]_vars

-----------------------------------------------------------------------------
(* Properties *)

NonFinite == {"NaN", "Infinity", "-Infinity"}

\* C1 (SpecDisplay): when the merge effect installs a regenerated itinerary,
\* every key of the new itinerary at which the store holds a number (0
\* included) keeps that number, whatever default the new activity carries.
C1_ExistingWins ==
    [][effectPending =>
        \A key \in KeysOf(itineraryData) :
            Lookup(activityActualCosts, key).t = "number"
                => activityActualCosts'[key] = activityActualCosts[key]]_vars

\* C2 (SpecDisplay): a render of an itinerary with zero days reports an
\* AggregationError and computes neither average as NaN or an infinity.
C2_ZeroDaysReported ==
    view.durationDays = 0 =>
        /\ view.shown = "AggregationError"
        /\ view.averageDailyBudget.t \notin NonFinite
        /\ view.remainingAverageDailyBudget.t \notin NonFinite

\* text needle occurs in text hay
Contains(hay, needle) ==
    \E i \in 0..(Len(hay) - Len(needle)) : SubSeq(hay, i + 1, i + Len(needle)) = needle

\* the call resolved with usable text
AnsweredWithText ==
    /\ pc = "done"
    /\ response.t = "resolved"
    /\ response.text.t = "string"
    /\ Trim(response.text.chars) # <<>>

\* the JSON candidate extracted from the answer
Candidate == ExtractJson(Trim(response.text.chars)).jsonStr

\* C3 (SpecGen): when strict parsing of the candidate fails, the call fails,
\* returns no result, and the error given to the caller carries the
\* candidate text.
C3_MalformedCarriesCandidate ==
    (AnsweredWithText /\ ~JSONParse(Candidate).ok) =>
        /\ outcome.t = "rejected"
        /\ Contains(outcome.error.message.chars, Candidate)

\* the parsed value has an itinerary field that is an ordered sequence
HasItinerarySequence(v) == v.t = "object" /\ v.itinerary.t = "array"

\* C4 (SpecGen): a parsed value whose itinerary field is missing or is no
\* sequence makes the call fail; no result is built from it.
C4_RejectsWrongShape ==
    (AnsweredWithText /\ JSONParse(Candidate).ok
        /\ ~HasItinerarySequence(JSONParse(Candidate).value))
        => outcome.t = "rejected"

\* every error the catch block can hand to the caller for a failed call
UpstreamFailures == {Rethrown(e) : e \in BackendErrors}

\* every error the catch block can hand to the caller at all
CaughtFailures ==
    UpstreamFailures \cup {Rethrown(Error(<<MsgNoResponse>>)), Rethrown(Error(<<MsgMalformed>>))}

\* C5 (SpecGen): with no credential configured (unset or empty) no backend
\* call is ever attempted, the call fails with the missing-key error, and
\* that error is none of those the catch block produces.
C5_ConfigErrorBeforeAnyCall ==
    apiKey \in {Undefined, Str(<<>>)} =>
        /\ backendCalls = 0
        /\ pc \in {"start", "done"}
        /\ request = Idle
        /\ pc = "done" =>
            /\ outcome = Rejected(Error(<<MsgNoKey>>))
            /\ outcome.error \notin CaughtFailures

C5_Witness ==
    /\ pc = "done"
    /\ apiKey = Undefined
    /\ outcome.t = "rejected"
    /\ backendCalls = 0

\* C6 (SpecGen): a call that resolves with no usable text fails with an
\* error the caller can tell from every error of a failed call.
C6_EmptyResponseDistinct ==
    (pc = "done" /\ response.t = "resolved"
        /\ (response.text.t = "undefined" \/ Trim(response.text.chars) = <<>>))
        => /\ outcome.t = "rejected"
           /\ outcome.error \notin UpstreamFailures

\* C7 (SpecGen): with both coordinates present (any numbers, 0 included) the
\* request asks for web search and maps grounding, biased to exactly these
\* coordinates, and the prompt ends with the location clause; with either
\* one missing it asks for web search only, with an empty configuration and
\* no clause.
C7_CoordinatesPresent ==
    pc = "call" =>
        LET lat == preferences.latitude
            lng == preferences.longitude
            clause == [piece |-> "location", latitude |-> lat, longitude |-> lng]
        IN  /\ request.tools[1] = "googleSearch"
            /\ IF lat.t = "number" /\ lng.t = "number"
                 THEN /\ request.tools = <<"googleSearch", "googleMaps">>
                      /\ request.toolConfig =
                            [retrievalConfig |->
                                [latLng |-> [latitude |-> lat, longitude |-> lng]]]
                      /\ request.contents[Len(request.contents)] = clause
                 ELSE /\ request.tools = <<"googleSearch">>
                      /\ request.toolConfig = [empty |-> TRUE]
                      /\ \A i \in 1..Len(request.contents) :
                            request.contents[i].piece # "location"

\* C8 (SpecCost): parseCostToNumber returns a number for every estimatedCost
\* that can reach it, a text or not.
C8_NeverRaises == costResult # Idle => costResult.t = "number"

\* an optional prefix without digits or minus sign, then digits grouped by
\* periods and commas
IsPrefixedAmount(s) ==
    \E k \in 0..(Len(s) - 1) :
        /\ \A i \in 1..k : ~IsDigit(s[i]) /\ s[i] # "-"
        /\ IsDigit(s[k + 1])
        /\ IsDigit(s[Len(s)])
        /\ \A i \in (k + 1)..Len(s) : IsDigit(s[i]) \/ s[i] \in {".", ","}

\* C9 (SpecCost): for a prefixed, grouped amount parseCostToNumber returns
\* the integer written by the digits of the text in their order.
C9_DigitsInOrder ==
    (costResult # Idle /\ costString.t = "string" /\ IsPrefixedAmount(costString.chars))
        => costResult = Num(DigitsValue(SelectSeq(costString.chars, IsDigit)))

C9_Witness ==
    /\ costString = Str(<<"R", "p", " ", "5", "0", ",", "0", "0", "0">>)
    /\ costResult = Num(50000)

\* the chunk list of the answer, empty when a level is absent
AnswerChunks ==
    LET chunks == GroundingChunks(response)
    IN  IF chunks.t = "undefined" THEN <<>> ELSE chunks.items

\* the places of the chunk list that carry uri u, web before maps in a chunk
PlacesOf(u) ==
    {2 * i - 1 : i \in {n \in 1..Len(AnswerChunks) :
                        AnswerChunks[n].web.t = "ref" /\ AnswerChunks[n].web.uri = u}}
        \cup {2 * i : i \in {n \in 1..Len(AnswerChunks) :
                        AnswerChunks[n].maps.t = "ref" /\ AnswerChunks[n].maps.uri = u}}

FirstPlace(u) == CHOOSE p \in PlacesOf(u) : \A q \in PlacesOf(u) : p <= q

\* the uris the chunks carry: the non-empty texts found as web.uri or maps.uri
CarriedUris == {u \in {UriA, UriB, UriC} : PlacesOf(u) # {}}

\* C10 (SpecGround): sourceUrls holds exactly the uris the chunks carry, each
\* once, in the order of their first occurrence; with an absent level it is
\* empty and the call still succeeds.
C10_SourceUrls ==
    pc = "done" =>
        /\ outcome.t = "fulfilled"
        /\ LET urls == outcome.value.sourceUrls
           IN  /\ Range(urls) = CarriedUris
               /\ \A i, j \in 1..Len(urls) :
                    i < j => urls[i] # urls[j] /\ FirstPlace(urls[i]) < FirstPlace(urls[j])
               /\ response.candidates \in AbsentGroundings => urls = <<>>

C10_Witness ==
    /\ pc = "done"
    /\ AnswerChunks =
        <<Chunk(Web(UriA), Undefined), Chunk(Undefined, Web(UriC)),
          Chunk(Web(UriA), Undefined)>>
    /\ outcome.value.sourceUrls = <<UriA, UriC>>

\* the positions <<i, j>> of the first json-fenced block of a text: the
\* first json fence marker and the nearest fence after it
FirstJsonBlock(raw) ==
    { <<i, j>> \in (1..Len(raw)) \X (1..Len(raw)) :
        /\ raw[i] = FenceJson
        /\ \A k \in 1..(i - 1) : raw[k] # FenceJson
        /\ i < j
        /\ IsFence(raw[j])
        /\ \A k \in (i + 1)..(j - 1) : ~IsFence(raw[k]) }

\* the text between the markers of a block, white space around it left out
InnerText(raw, block) == Trim(SubSeq(raw, block[1] + 1, block[2] - 1))

\* the no-fence warning was written
FallbackFlagged == Warn(MsgNoFence) \in Range(consoleLog)

\* the call went on with text candidate as its JSON candidate: its parsed
\* value is the itinerary returned, or it is the text reported as unparsable
ProceededWith(candidate) ==
    IF JSONParse(candidate).ok
        THEN /\ outcome.t = "fulfilled"
             /\ outcome.value.itineraryData = JSONParse(candidate).value
        ELSE LogError("Failed to parse JSON response:", Str(candidate)) \in Range(consoleLog)

\* C11 (SpecGen): when the answer holds a json-fenced block the JSON
\* candidate is the trimmed inner text of the first such block and no
\* warning is written; when it holds none the candidate is the whole trimmed
\* answer and the warning is written.
C11_FirstFencedBlock ==
    AnsweredWithText =>
        LET raw == Trim(response.text.chars)
            blocks == FirstJsonBlock(raw)
        IN  IF blocks # {}
                THEN /\ \A b \in blocks : ProceededWith(InnerText(raw, b))
                     /\ ~FallbackFlagged
                ELSE /\ ProceededWith(raw)
                     /\ FallbackFlagged

RECURSIVE SumOver(_, _)
\* the sum of the integers f[x] over the x of a finite set
SumOver(f, S) ==
    IF S = {} THEN 0
    ELSE LET x == CHOOSE y \in S : TRUE IN f[x] + SumOver(f, S \ {x})

\* C12 (SpecDisplay): whatever the store holds, the rendered estimated
\* total is the sum, over every position <<day, activity>> of the current
\* itinerary taken once, of the parsed estimated cost of the activity there;
\* days without activities add nothing.
C12_TotalEstimated ==
    LET parsed ==
            [key \in KeysOf(itineraryData) |->
                parseCostToNumber(ActivityAt(itineraryData, key).estimatedCost).value]
    IN  view.totalEstimatedCost = Num(SumOver(parsed, KeysOf(itineraryData)))

C12_Witness ==
    /\ Len(itineraryData.itinerary) = 2
    /\ itineraryData.itinerary[1].activities = <<>>
    /\ Len(itineraryData.itinerary[2].activities) = 2
    /\ itineraryData.itinerary[2].activities[1] # itineraryData.itinerary[2].activities[2]
    /\ ~effectPending
    /\ activityActualCosts[<<1, 0>>] = Num(5)
    /\ view.totalEstimatedCost = Num(6200)

\* C13 (SpecDisplay): in every render, after any edits and regenerations,
\* the actual total is the sum over the entries of the store of the
\* number held there, an entry without a number adding 0 whatever the
\* estimated cost of its activity, and the remaining budget is the budget
\* less that total.
C13_TotalActual ==
    LET numberAt ==
            [key \in DOMAIN activityActualCosts |->
                IF activityActualCosts[key].t = "number"
                    THEN activityActualCosts[key].value ELSE 0]
        total == SumOver(numberAt, DOMAIN activityActualCosts)
    IN  /\ view.totalActualCost = Num(total)
        /\ view.remainingBudget = Num(userBudget - total)

C13_Witness ==
    /\ ~effectPending
    /\ DOMAIN activityActualCosts = {<<0, 0>>, <<1, 0>>}
    /\ activityActualCosts[<<0, 0>>] = Undefined
    /\ parseCostToNumber(ActivityAt(itineraryData, <<0, 0>>).estimatedCost) = Num(5000)
    /\ activityActualCosts[<<1, 0>>] = Num(5)
    /\ view.totalActualCost = Num(5)
    /\ view.remainingBudget = Num(userBudget - 5)

\* C14 (SpecDisplay): no render shows a regenerated itinerary with the store
\* of the previous one: every position at which the rendered store holds a
\* number exists in the rendered itinerary, and the rendered actual total
\* counts the numbers at existing positions only.
C14_AtomicInstall ==
    view.shown = "itinerary" =>
        LET shownKeys == KeysOf(view.itinerary)
            numberAt ==
                [key \in shownKeys |->
                    IF Lookup(view.actualCosts, key).t = "number"
                        THEN view.actualCosts[key].value ELSE 0]
        IN  /\ \A key \in DOMAIN view.actualCosts :
                    view.actualCosts[key].t = "number" => key \in shownKeys
            /\ view.totalActualCost = Num(SumOver(numberAt, shownKeys))

====
